---- MODULE Spec2Model ----
(***************************************************************************)
(* Shopearn Pro API (src/main.py, src/schemas.py): the catalog, the admin  *)
(* link table and the two tracking redirects, as request handlers running  *)
(* in parallel against one document store.                                 *)
(*                                                                         *)
(* Each request is handled by one handler slot.  A handler is cut at its   *)
(* store round trips: one action per store operation, together with the    *)
(* Python code that runs up to the next store operation.  The store        *)
(* applies one document operation at a time.                               *)
(*                                                                         *)
(* Encoding.  An Optional[...] value is a sequence of length at most one:  *)
(* None is << >> and a value v is <<v>>.  A collection is the sequence of  *)
(* its documents in insertion order, and a document's _id is its position  *)
(* (documents are never deleted); ObjectId(s) and str(oid) are inverse on  *)
(* valid ids, so an id is the same number on both sides.  A platform name  *)
(* is a sequence of one-character strings, so that str.lower() can be      *)
(* computed character by character.  A float is an integer.  A dict is a   *)
(* function whose DOMAIN is its key set.                                   *)
(*                                                                         *)
(* Modelled: signup, create_product, update_product, get_links, set_links, *)
(* redirect_platform, redirect_product.  The other handlers (login, the    *)
(* product reads, admin_stats, the order handlers) write none of user,     *)
(* product, click, adminsettings.  Store operations outside a try block    *)
(* are taken to succeed; the ones inside a try block may raise.            *)
(***************************************************************************)
EXTENDS Integers, Sequences, FiniteSets, TLC

(* ------------------------------ bounds -------------------------------- *)

\* number of handler slots, each serving one request
NProcs == 2

(* --------------------------- program state ---------------------------- *)

VARIABLES
    user,           \* db["user"]
    product,        \* db["product"]
    click,          \* db["click"]
    adminsettings,  \* db["adminsettings"]
    adminauditlog,  \* db["adminauditlog"]
    clock,          \* datetime.now(timezone.utc), as a tick count
    pc,             \* per slot: where its handler stands
    req,            \* per slot: the request it serves
    loc,            \* per slot: the handler's local variables
    result,         \* per slot: the response sent
    faults          \* per slot: the telemetry writes that raised (and were swallowed)

vars == <<user, product, click, adminsettings, adminauditlog, clock, pc, req, loc, result, faults>>

store == <<user, product, click, adminsettings, adminauditlog>>

Procs == 1..NProcs

None == << >>

Some(v) == <<v>>

\* Python truthiness of an Optional[str]: None and "" are falsy
Falsy(o) == o = None \/ o = Some("")

NoReq == [op |-> "none"]

NoLoc == [k \in {} |-> 0]

\* no response yet
NoResult == [status |-> 0]

(* ------------------------------ helpers ------------------------------- *)

\* dict.get(k): None when the key is absent
DictGet(d, k) == IF k \in DOMAIN d THEN Some(d[k]) ELSE None

\* {**d, **u}: the keys of u overwrite, the other keys of d stay
Merge(d, u) == [k \in (DOMAIN d) \cup (DOMAIN u) |-> IF k \in DOMAIN u THEN u[k] ELSE d[k]]

\* coll.find_one({"_id": id})
FindById(coll, id) == IF id \in 1..Len(coll) THEN Some(coll[id]) ELSE None

\* coll.find_one({}): the first document in natural order
FindFirst(coll) == IF Len(coll) > 0 THEN Some(coll[1]) ELSE None

\* database.create_document: dump the model, stamp created_at and updated_at, insert
create_document(coll, data, now) ==
    Append(coll, Merge(data, [_id |-> Len(coll) + 1, created_at |-> now, updated_at |-> now]))

\* coll.update_one({"_id": id}, ...): the matched document is replaced by doc
ReplaceById(coll, id, doc) == [coll EXCEPT ![id] = doc]

(* ------------------------------ schemas ------------------------------- *)

\* the document fields that may hold null
NullableFields == {"description", "category", "rating", "hot_deal_expiry", "affiliate_link"}

\* schemas.Product, as built by create_product: featured, clicks, orders take their defaults
ProductSchema(user_id, r) ==
    [affiliate_id |-> user_id, images |-> r.images, title |-> r.title,
     description |-> r.description, price |-> r.price, vendor |-> r.vendor,
     category |-> r.category, tags |-> r.tags, rating |-> r.rating,
     hot_deal |-> r.hot_deal, hot_deal_expiry |-> r.hot_deal_expiry,
     featured |-> FALSE, clicks |-> 0, orders |-> 0,
     affiliate_link |-> r.affiliate_link]

\* schemas.Click
ClickSchema(type, user_id, product_id, affiliate_id, ip, meta) ==
    [type |-> type, user_id |-> user_id, product_id |-> product_id,
     affiliate_id |-> affiliate_id, ip |-> ip, meta |-> meta]

(* ------------------------------ requests ------------------------------ *)

UserIds == 1..4

\* the product ids a request may name; an id beyond the collection is unknown
IdRange == {1, 2}

\* hash_password: the SHA-256 hex digest, kept as the tagged password (one digest per password)
hash_password(pw) == <<"sha256", pw>>

\* schemas.User, as built by signup: photo_url, is_active, ad_free, subscription_expiry
\* take their defaults
UserSchema(r) ==
    [role |-> r.role, name |-> r.name, email |-> r.email,
     password_hash |-> hash_password(r.password), phone |-> r.phone, photo_url |-> None,
     age |-> r.age, gender |-> r.gender, is_active |-> TRUE, ad_free |-> FALSE,
     subscription_expiry |-> None]

\* a SignupRequest body
SignupOf(role, name, email) ==
    [role |-> role, name |-> name, email |-> email, password |-> "pw",
     phone |-> None, age |-> None, gender |-> None]

\* SignupRequest bodies: a new e-mail or a stored one, as affiliate or as buyer
SignupReqs == { SignupOf(role, "D", email) : role \in {"affiliate", "buyer"}, email \in {"d@x", "a@x"} }

\* the stored users at the start, after three signups: 1 and 3 are affiliates, 2 is a
\* buyer, 4 is no user yet
InitUsers ==
    create_document(
        create_document(
            create_document(<<>>, UserSchema(SignupOf("affiliate", "A", "a@x")), 1),
            UserSchema(SignupOf("buyer", "B", "b@x")), 2),
        UserSchema(SignupOf("affiliate", "C", "c@x")), 3)

BaseCreate ==
    [images |-> <<"i1">>, title |-> "t1", description |-> None, price |-> 10,
     vendor |-> "amazon", category |-> Some("electronics"), tags |-> <<>>,
     rating |-> None, affiliate_link |-> Some("https://vendor/x"),
     hot_deal |-> FALSE, hot_deal_expiry |-> None]

\* ProductCreateRequest bodies
CreateReqs == { BaseCreate, [BaseCreate EXCEPT !.affiliate_link = None] }

\* ProductUpdateRequest() with nothing supplied: every field None
NoUpdate ==
    [images |-> None, title |-> None, description |-> None, price |-> None,
     vendor |-> None, category |-> None, tags |-> None, rating |-> None,
     affiliate_link |-> None, hot_deal |-> None, hot_deal_expiry |-> None,
     featured |-> None]

\* ProductUpdateRequest bodies
UpdateReqs ==
    { NoUpdate,
      [NoUpdate EXCEPT !.price = Some(999)],
      [NoUpdate EXCEPT !.affiliate_link = Some("")],
      [NoUpdate EXCEPT !.affiliate_link = Some("https://vendor/y"),
                       !.title = Some("t2"), !.featured = Some(TRUE)] }

\* the optional user_id query parameter of the redirects
ClickUsers == { None, Some(2) }

\* request.client.host
ClientIp == Some("10.0.0.1")

(* ------------------------------ catalog ------------------------------- *)

Done(p, res) ==
    /\ pc' = [pc EXCEPT ![p] = "done"]
    /\ loc' = [loc EXCEPT ![p] = NoLoc]
    /\ result' = [result EXCEPT ![p] = res]

Goto(p, label, l) ==
    /\ pc' = [pc EXCEPT ![p] = label]
    /\ loc' = [loc EXCEPT ![p] = l]
    /\ result' = result

\* model_dump() that keeps a None of a field the document may hold as null
DumpWithNone(r) == [k \in {f \in DOMAIN r : r[f] # None \/ f \in NullableFields} |-> r[k]]

\* req.model_dump(exclude_none=True): the supplied fields only (values still Optional-encoded)
ExcludeNone(r) == [k \in {f \in DOMAIN r : r[f] # None} |-> r[k]]

\* the stored form of an Optional-encoded value: a nullable field keeps the encoding
Stored(k, o) == IF k \in NullableFields THEN o ELSE o[1]

\* {"$set": updates} applied to a document: only the keys of updates change
SetFields(doc, updates) == Merge(doc, [k \in DOMAIN updates |-> Stored(k, updates[k])])

\* {"$set": {"clicks": 1}} in place of the $inc
SetClicksOne(doc) == [doc EXCEPT !.clicks = 1]

\* {"$inc": {"clicks": 1}} applied to a document
IncClicks(doc) == [doc EXCEPT !.clicks = @ + 1]

\* an owner check that lets everyone through
NotOwnerNever(prod, user_id) == FALSE

\* update_product, line 204: the acting user is not the owning affiliate
NotOwner(prod, user_id) == prod.affiliate_id # user_id

\* a role check that accepts every stored user
IsAffiliateAnyUser(aff) == aff # None

\* create_product, line 143: the caller's stored record exists with role "affiliate"
IsAffiliate(aff) == aff # None /\ aff[1].role = "affiliate"

\* db["user"].find_one({"email": email}): the first stored user with that e-mail
FindByEmail(coll, email) ==
    LET hits == { i \in 1..Len(coll) : coll[i].email = email } IN
    IF hits = {} THEN None ELSE Some(coll[CHOOSE i \in hits : \A j \in hits : i <= j])

\* signup, lines 114-125: refuse a stored e-mail, build the User (the dash of the
\* detail text is written as a hyphen)
signup_find(p) ==
    /\ pc[p] = "idle"
    /\ \E r \in SignupReqs :
          /\ req' = [req EXCEPT ![p] = [op |-> "signup", body |-> r]]
          /\ IF FindByEmail(user, r.email) # None
                THEN Done(p, [status |-> 400,
                              detail |-> "Account exists - please login instead."])
                ELSE Goto(p, "signup_insert", [user |-> UserSchema(r)])
    /\ UNCHANGED <<store, clock, faults>>

\* signup, lines 126-127: insert the User
signup_insert(p) ==
    /\ pc[p] = "signup_insert"
    /\ user' = create_document(user, loc[p].user, clock)
    /\ clock' = clock + 1
    /\ Done(p, [status |-> 200, user_id |-> Len(user) + 1])
    /\ UNCHANGED <<product, click, adminsettings, adminauditlog, req, faults>>

\* create_product, lines 142-158: look the caller up, refuse a non-affiliate, build the Product
create_product_find(p) ==
    /\ pc[p] = "idle"
    /\ \E r \in CreateReqs, user_id \in UserIds :
          LET aff == FindById(user, user_id) IN
          /\ req' = [req EXCEPT ![p] = [op |-> "create_product", user_id |-> user_id, body |-> r]]
          /\ IF ~IsAffiliate(aff)
                THEN Done(p, [status |-> 403, detail |-> "Only affiliates can upload"])
                ELSE Goto(p, "create_product_insert", [prod |-> ProductSchema(user_id, r)])
    /\ UNCHANGED <<store, clock, faults>>

\* create_product, lines 159-160: insert the Product
create_product_insert(p) ==
    /\ pc[p] = "create_product_insert"
    /\ product' = create_document(product, loc[p].prod, clock)
    /\ clock' = clock + 1
    /\ Done(p, [status |-> 200, product_id |-> Len(product) + 1])
    /\ UNCHANGED <<user, click, adminsettings, adminauditlog, req, faults>>

\* update_product, lines 201-207: find the product, check the owner, build the updates
update_product_find(p) ==
    /\ pc[p] = "idle"
    /\ \E product_id \in IdRange, r \in UpdateReqs, user_id \in UserIds :
          LET prod == FindById(product, product_id) IN
          /\ req' = [req EXCEPT ![p] = [op |-> "update_product", product_id |-> product_id,
                                        user_id |-> user_id, body |-> r]]
          /\ IF prod = None
                THEN Done(p, [status |-> 404, detail |-> "Not found"]) /\ clock' = clock
                ELSE IF NotOwner(prod[1], user_id)
                THEN Done(p, [status |-> 403, detail |-> "Not owner"]) /\ clock' = clock
                ELSE /\ Goto(p, "update_product_set",
                             [updates |-> Merge(ExcludeNone(r), [updated_at |-> Some(clock)])])
                     /\ clock' = clock + 1
    /\ UNCHANGED <<store, faults>>

\* update_product, lines 208-209: $set the updates on the product
update_product_set(p) ==
    /\ pc[p] = "update_product_set"
    /\ product' = ReplaceById(product, req[p].product_id,
                              SetFields(product[req[p].product_id], loc[p].updates))
    /\ Done(p, [status |-> 200])
    /\ UNCHANGED <<user, click, adminsettings, adminauditlog, clock, req, faults>>

(* -------------------------- admin link table -------------------------- *)

\* the fixed admin credential of set_links
ADMIN_EMAIL == "shekharxlr8@gmail.com"

ADMIN_PASSWORD == "Shekhar_4t7"

\* the admin_email / admin_password query parameters a caller may send
AdminCreds ==
    { [admin_email |-> Some(ADMIN_EMAIL), admin_password |-> Some(ADMIN_PASSWORD)],
      [admin_email |-> Some(ADMIN_EMAIL), admin_password |-> Some("guess")],
      [admin_email |-> None, admin_password |-> None] }

\* the platform names a caller may send, as character sequences
PlatformNames == { <<"a", "z">>, <<"A", "z">>, <<"A", "Z">>, <<"f", "k">> }

LinkUrls == { "https://amzn.to/1", "https://fkrt.it/2" }

\* the AdminLinks.links maps a caller may send: the empty map, every map with one key,
\* a map with an empty URL, and a map whose two keys differ only in case
LinkMaps ==
    UNION { [D -> LinkUrls] : D \in { E \in SUBSET PlatformNames : Cardinality(E) <= 1 } }
      \cup { [k \in { <<"f", "k">> } |-> ""],
             [k \in { <<"a", "z">>, <<"A", "Z">> } |->
                 IF k = <<"a", "z">> THEN "https://amzn.to/1" ELSE "https://fkrt.it/2"] }

\* str.lower() on one character
LowerChar(c) ==
    CASE c = "A" -> "a"
      [] c = "Z" -> "z"
      [] c = "F" -> "f"
      [] c = "K" -> "k"
      [] OTHER -> c

\* str.lower()
Lower(s) == [i \in 1..Len(s) |-> LowerChar(s[i])]

\* schemas.AdminSettings
AdminSettingsSchema(links) == [links |-> links]

\* schemas.AdminAuditLog
AdminAuditLogSchema(admin_id, action, details) ==
    [admin_id |-> admin_id, action |-> action, details |-> details]

\* set_links, line 223: the credential check
ValidAdmin(c) == c.admin_email = Some(ADMIN_EMAIL) /\ c.admin_password = Some(ADMIN_PASSWORD)

\* get_links, lines 215-218: the links of the first settings document, {} when there is none
GetLinks(settings) ==
    LET doc == FindFirst(settings) IN
    IF doc = None THEN [k \in {} |-> ""] ELSE doc[1].links

\* a lookup that falls back to the first stored URL when the key is absent
ResolveOrFirst(settings, platform) ==
    LET doc == FindFirst(settings) IN
    IF doc = None THEN None
    ELSE IF Lower(platform) \in DOMAIN doc[1].links THEN Some(doc[1].links[Lower(platform)])
    ELSE IF DOMAIN doc[1].links = {} THEN None
    ELSE Some(doc[1].links[CHOOSE k \in DOMAIN doc[1].links : TRUE])

\* redirect_platform, lines 254-255: the URL stored under platform.lower(), None when absent
ResolvePlatform(settings, platform) ==
    LET doc == FindFirst(settings) IN
    IF doc = None THEN None ELSE DictGet(doc[1].links, Lower(platform))

\* a $set that adds the new keys to the stored map
SetLinksMerged(doc, links, now) ==
    Merge(doc, [links |-> Merge(doc.links, links), updated_at |-> now])

\* set_links, line 228: {"$set": {"links": ..., "updated_at": ...}} applied to the document
SetLinks(doc, links, now) == Merge(doc, [links |-> links, updated_at |-> now])

\* get_links, lines 214-218
get_links(p) ==
    /\ pc[p] = "idle"
    /\ req' = [req EXCEPT ![p] = [op |-> "get_links"]]
    /\ Done(p, [status |-> 200, links |-> GetLinks(adminsettings)])
    /\ UNCHANGED <<store, clock, faults>>

\* set_links, lines 223-228: check the credential, read the existing settings document
\* and, when there is one, the time that the update will stamp (line 228 reads it while
\* building the arguments of update_one)
set_links_find(p) ==
    /\ pc[p] = "idle"
    /\ \E links \in LinkMaps, c \in AdminCreds :
          LET existing == FindFirst(adminsettings) IN
          /\ req' = [req EXCEPT ![p] = [op |-> "set_links", links |-> links, creds |-> c]]
          /\ IF ~ValidAdmin(c)
                THEN Done(p, [status |-> 401, detail |-> "Invalid admin credentials"])
                     /\ clock' = clock
                ELSE IF existing # None
                THEN /\ Goto(p, "set_links_write", [existing |-> existing, now |-> clock])
                     /\ clock' = clock + 1
                ELSE /\ Goto(p, "set_links_write", [existing |-> None])
                     /\ clock' = clock
    /\ UNCHANGED <<store, faults>>

\* set_links, lines 227-230: update the document that was read with the time read then,
\* or create one
set_links_write(p) ==
    /\ pc[p] = "set_links_write"
    /\ LET existing == loc[p].existing IN
       IF existing # None
          THEN /\ adminsettings' =
                     ReplaceById(adminsettings, existing[1]._id,
                                 SetLinks(adminsettings[existing[1]._id], req[p].links,
                                          loc[p].now))
               /\ clock' = clock
          ELSE /\ adminsettings' =
                     create_document(adminsettings, AdminSettingsSchema(req[p].links), clock)
               /\ clock' = clock + 1
    /\ Goto(p, "set_links_audit", NoLoc)
    /\ UNCHANGED <<user, product, click, adminauditlog, req, faults>>

\* set_links, lines 231-235: append the audit entry; an exception is swallowed
set_links_audit(p) ==
    /\ pc[p] = "set_links_audit"
    /\ \E ok \in BOOLEAN :
          IF ok
             THEN /\ adminauditlog' = create_document(adminauditlog,
                        AdminAuditLogSchema("hardcoded-admin", "update_links", req[p].links),
                        clock)
                  /\ clock' = clock + 1
                  /\ faults' = faults
             ELSE /\ adminauditlog' = adminauditlog
                  /\ clock' = clock
                  /\ faults' = [faults EXCEPT ![p] = @ \cup {"audit"}]
    /\ Done(p, [status |-> 200])
    /\ UNCHANGED <<user, product, click, adminsettings, req>>

(* ----------------------------- redirects ------------------------------ *)

\* redirect_platform, lines 254-257: resolve the platform, refuse when there is no URL
redirect_platform_find(p) ==
    /\ pc[p] = "idle"
    /\ \E platform \in PlatformNames, user_id \in ClickUsers :
          LET url == ResolvePlatform(adminsettings, platform) IN
          /\ req' = [req EXCEPT ![p] = [op |-> "redirect_platform", platform |-> platform,
                                        user_id |-> user_id]]
          /\ IF Falsy(url)
                THEN Done(p, [status |-> 404, detail |-> "Link not available yet."])
                ELSE Goto(p, "redirect_platform_click", [url |-> url[1]])
    /\ UNCHANGED <<store, clock, faults>>

\* redirect_platform, lines 258-263: append the Click (an exception is swallowed), redirect
redirect_platform_click(p) ==
    /\ pc[p] = "redirect_platform_click"
    /\ \E ok \in BOOLEAN :
          IF ok
             THEN /\ click' = create_document(click,
                                 ClickSchema("logo", req[p].user_id, None, None, ClientIp,
                                             [platform |-> req[p].platform]),
                                 clock)
                  /\ clock' = clock + 1
                  /\ faults' = faults
             ELSE /\ click' = click
                  /\ clock' = clock
                  /\ faults' = [faults EXCEPT ![p] = @ \cup {"click"}]
    /\ Done(p, [status |-> 307, url |-> loc[p].url])
    /\ UNCHANGED <<user, product, adminsettings, adminauditlog, req>>

\* a Click attributed to the requesting user in place of the product's affiliate
ProductClickByUser(product_id, user_id, prod) ==
    ClickSchema("product", user_id, Some(product_id), user_id, ClientIp, [k \in {} |-> ""])

\* redirect_product, line 277: the Click of a product redirect
ProductClick(product_id, user_id, prod) ==
    ClickSchema("product", user_id, Some(product_id), Some(prod.affiliate_id), ClientIp,
                [k \in {} |-> ""])

\* redirect_product, lines 268-270: find the product, refuse when it has no link
\* (found notes which of the two the lookup met; the 404 response is the same for both)
redirect_product_find(p) ==
    /\ pc[p] = "idle"
    /\ \E product_id \in IdRange, user_id \in ClickUsers :
          LET prod == FindById(product, product_id) IN
          /\ req' = [req EXCEPT ![p] = [op |-> "redirect_product", product_id |-> product_id,
                                        user_id |-> user_id]]
          /\ IF prod = None \/ Falsy(prod[1].affiliate_link)
                THEN Done(p, [status |-> 404, detail |-> "Affiliate link not available",
                              found |-> prod # None])
                ELSE Goto(p, "redirect_product_inc", [prod |-> prod[1]])
    /\ UNCHANGED <<store, clock, faults>>

\* the $inc without its try block: an exception becomes the response
redirect_product_inc_raises(p) ==
    /\ pc[p] = "redirect_product_inc"
    /\ \E ok \in BOOLEAN :
          IF ok
             THEN /\ product' = ReplaceById(product, req[p].product_id,
                                            IncClicks(product[req[p].product_id]))
                  /\ faults' = faults
                  /\ Goto(p, "redirect_product_click", loc[p])
             ELSE /\ product' = product
                  /\ faults' = [faults EXCEPT ![p] = @ \cup {"inc"}]
                  /\ Done(p, [status |-> 500, detail |-> "Internal Server Error"])
    /\ UNCHANGED <<user, click, adminsettings, adminauditlog, clock, req>>

\* redirect_product, lines 271-274: $inc clicks; an exception is swallowed
redirect_product_inc(p) ==
    /\ pc[p] = "redirect_product_inc"
    /\ \E ok \in BOOLEAN :
          IF ok
             THEN /\ product' = ReplaceById(product, req[p].product_id,
                                            IncClicks(product[req[p].product_id]))
                  /\ faults' = faults
             ELSE /\ product' = product
                  /\ faults' = [faults EXCEPT ![p] = @ \cup {"inc"}]
    /\ Goto(p, "redirect_product_click", loc[p])
    /\ UNCHANGED <<user, click, adminsettings, adminauditlog, clock, req>>

\* redirect_product, lines 275-280: append the Click (an exception is swallowed), redirect
redirect_product_click(p) ==
    /\ pc[p] = "redirect_product_click"
    /\ \E ok \in BOOLEAN :
          IF ok
             THEN /\ click' = create_document(click,
                                 ProductClick(req[p].product_id, req[p].user_id, loc[p].prod),
                                 clock)
                  /\ clock' = clock + 1
                  /\ faults' = faults
             ELSE /\ click' = click
                  /\ clock' = clock
                  /\ faults' = [faults EXCEPT ![p] = @ \cup {"click"}]
    /\ Done(p, [status |-> 307, url |-> loc[p].prod.affiliate_link[1]])
    /\ UNCHANGED <<user, product, adminsettings, adminauditlog, req>>

(* --------------------------- specifications --------------------------- *)

\* the settings collection at the start: empty, or after the admin has set a links map
InitSettings ==
    { <<>>,
      create_document(<<>>, AdminSettingsSchema([k \in { <<"a", "z">> } |-> "https://amzn.to/1"]), 5) }

\* the product collection at the start: empty, or after affiliate 1 has created a listing
InitProducts == { <<>>, create_document(<<>>, ProductSchema(1, BaseCreate), 4) }

Idle ==
    /\ user = InitUsers
    /\ click = <<>>
    /\ adminauditlog = <<>>
    /\ clock = 7
    /\ pc = [p \in Procs |-> "idle"]
    /\ req = [p \in Procs |-> NoReq]
    /\ loc = [p \in Procs |-> NoLoc]
    /\ result = [p \in Procs |-> NoResult]
    /\ faults = [p \in Procs |-> {}]

\* the settings collection after two set_links calls raced on an empty collection
InitSettingsRaced ==
    { create_document(
          create_document(<<>>, AdminSettingsSchema([k \in { <<"a", "z">> } |-> "https://amzn.to/1"]), 5),
          AdminSettingsSchema([k \in { <<"f", "k">> } |-> "https://fkrt.it/2"]), 6) }

Init == product \in InitProducts /\ adminsettings \in InitSettings /\ Idle

InitAdmin == product = <<>> /\ adminsettings \in InitSettings /\ Idle

InitAdminSeq == product = <<>> /\ adminsettings \in InitSettings \cup InitSettingsRaced /\ Idle

Next ==
    \E p \in Procs :
        \/ signup_find(p)
        \/ signup_insert(p)
        \/ create_product_find(p)
        \/ create_product_insert(p)
        \/ update_product_find(p)
        \/ update_product_set(p)
        \/ redirect_platform_find(p)
        \/ redirect_platform_click(p)
        \/ redirect_product_find(p)
        \/ redirect_product_inc(p)
        \/ redirect_product_click(p)

NextAdmin ==
    \E p \in Procs :
        \/ get_links(p)
        \/ set_links_find(p)
        \/ set_links_write(p)
        \/ set_links_audit(p)
        \/ redirect_platform_find(p)
        \/ redirect_platform_click(p)

\* the slots serve their requests one after the other, in slot order
InOrder(p) == \A q \in Procs : (q < p => pc[q] = "done") /\ (q > p => pc[q] = "idle")

NextAdminSeq ==
    \E p \in Procs :
        /\ InOrder(p)
        /\ \/ get_links(p)
           \/ set_links_find(p)
           \/ set_links_write(p)
           \/ set_links_audit(p)
           \/ redirect_platform_find(p)
           \/ redirect_platform_click(p)

\* the catalog and the two redirects, running in parallel
Spec == Init /\ [][Next]_vars

\* the admin link table and the platform redirect, running in parallel
SpecAdmin == InitAdmin /\ [][NextAdmin]_vars

\* the same handlers, one request at a time
SpecAdminSeq == InitAdminSeq /\ [][NextAdminSeq]_vars

(* ------------------------------- claims ------------------------------- *)

\* the slots whose redirect_product call on product i has got past its lookup
RedirectsOn(i) ==
    { p \in Procs : /\ req[p].op = "redirect_product"
                    /\ req[p].product_id = i
                    /\ \/ pc[p] \in {"redirect_product_inc", "redirect_product_click"}
                       \/ pc[p] = "done" /\ result[p].status = 307 }

\* the slots whose redirect_product call on product i found a product (with or without a link)
ObservedOn(i) ==
    { p \in Procs : /\ req[p].op = "redirect_product"
                    /\ req[p].product_id = i
                    /\ \/ pc[p] \in {"redirect_product_inc", "redirect_product_click"}
                       \/ pc[p] = "done" /\ result[p].status = 307
                       \/ pc[p] = "done" /\ result[p].status = 404 /\ result[p].found }

\* no redirect_product call on product i stands between its lookup and its $inc
IncSettled(i) ==
    \A p \in Procs :
        ~(pc[p] = "redirect_product_inc" /\ req[p].product_id = i)

\* no step lowers a product's clicks
ClicksMonotone ==
    \A i \in 1..Len(product) : product'[i].clicks >= product[i].clicks

\* C1 as claimed: once the redirect_product calls on a product have done their $inc, its
\* clicks (0 at creation) equals the number of calls that found the product (stated for
\* the runs in which no telemetry write raised)
C1_ClicksCountObserved ==
    (\A p \in Procs : faults[p] = {}) =>
        \A i \in 1..Len(product) :
            IncSettled(i) => product[i].clicks = Cardinality(ObservedOn(i))

\* C1, amended: once the redirect_product calls on a product have done their $inc, its
\* clicks (0 at creation) equals the number of calls that found the product with a non-empty
\* affiliate_link and whose $inc did not raise, under every interleaving with the other
\* handlers; and no step lowers clicks
C1_ClicksCount ==
    /\ [](\A i \in 1..Len(product) :
             IncSettled(i) =>
                product[i].clicks =
                   Cardinality({ p \in RedirectsOn(i) : "inc" \notin faults[p] }))
    /\ [][ClicksMonotone]_vars

\* two redirect_product calls on product 1 have both counted, an update_product on it or not
C1_Witness ==
    /\ Len(product) >= 1
    /\ product[1].clicks = 2
    /\ \A p \in Procs : pc[p] = "done"

\* a slot takes a step
Steps(p) == pc'[p] # pc[p]

\* a slot starts serving a request of the given handler
Starts(p, op) == pc[p] = "idle" /\ Steps(p) /\ req'[p].op = op

\* the steps of the redirects after the URL lookup: each goes on to the next, whatever the
\* telemetry write did, and the last one answers with the URL that was looked up
RedirectProceeds(p) ==
    /\ Starts(p, "redirect_platform") /\ ~Falsy(ResolvePlatform(adminsettings, req'[p].platform))
          => /\ pc'[p] = "redirect_platform_click"
             /\ Some(loc'[p].url) = ResolvePlatform(adminsettings, req'[p].platform)
    /\ pc[p] = "redirect_platform_click" /\ Steps(p)
          => /\ pc'[p] = "done"
             /\ result'[p] = [status |-> 307, url |-> loc[p].url]
    /\ Starts(p, "redirect_product")
         /\ FindById(product, req'[p].product_id) # None
         /\ ~Falsy(FindById(product, req'[p].product_id)[1].affiliate_link)
          => /\ pc'[p] = "redirect_product_inc"
             /\ loc'[p].prod = product[req'[p].product_id]
    /\ pc[p] = "redirect_product_inc" /\ Steps(p)
          => /\ pc'[p] = "redirect_product_click"
             /\ loc'[p] = loc[p]
    /\ pc[p] = "redirect_product_click" /\ Steps(p)
          => /\ pc'[p] = "done"
             /\ result'[p] = [status |-> 307, url |-> loc[p].prod.affiliate_link[1]]

\* C2: once the URL lookup of redirect_platform or redirect_product has succeeded, the
\* handler answers with a redirect to that URL whether the Click insert and the clicks $inc
\* succeed or raise: a call whose telemetry write raised has answered 307, never an error
C2_TelemetryNeverBlocks ==
    /\ [](\A p \in Procs :
             pc[p] = "done" /\ faults[p] # {} => result[p].status = 307)
    /\ [][\A p \in Procs : RedirectProceeds(p)]_vars

\* a platform redirect whose Click insert raised and a product redirect whose $inc and Click
\* insert both raised have each answered 307
C2_Witness ==
    \E p, q \in Procs :
        /\ pc[p] = "done" /\ req[p].op = "redirect_platform"
        /\ faults[p] = {"click"} /\ result[p].status = 307
        /\ pc[q] = "done" /\ req[q].op = "redirect_product"
        /\ faults[q] = {"inc", "click"} /\ result[q].status = 307

\* the Click documents of product redirects on product i attributed to its owner
ProductClicksOn(i) ==
    { j \in 1..Len(click) : /\ click[j].type = "product"
                            /\ click[j].product_id = Some(i)
                            /\ click[j].affiliate_id = Some(product[i].affiliate_id) }

\* the finished redirect_product calls on product i that answered 307 and whose Click insert
\* did not raise
LoggedRedirectsOn(i) ==
    { p \in Procs : /\ pc[p] = "done"
                    /\ req[p].op = "redirect_product"
                    /\ req[p].product_id = i
                    /\ result[p].status = 307
                    /\ "click" \notin faults[p] }

\* a redirect_product call answers 404
ProductRedirectRefused(p) == Starts(p, "redirect_product") /\ result'[p].status = 404

\* the Click log only grows at its end
ClickAppendOnly ==
    /\ Len(click') >= Len(click)
    /\ \A j \in 1..Len(click) : click'[j] = click[j]

\* C7: for every product P, the Click documents of type "product" with product_id P are
\* attributed to P's owner and are exactly as many as the finished successful
\* redirect_product calls on P whose Click insert did not raise (no deduplication); a
\* redirect_product that answers 404 leaves the Click log and the products unchanged; no
\* step changes or removes an existing Click
C7_OneClickPerRedirect ==
    /\ [](\A i \in 1..Len(product) :
             /\ Cardinality(ProductClicksOn(i)) = Cardinality(LoggedRedirectsOn(i))
             /\ \A j \in 1..Len(click) :
                   click[j].type = "product" /\ click[j].product_id = Some(i)
                      => j \in ProductClicksOn(i))
    /\ [][/\ \A p \in Procs : ProductRedirectRefused(p) => click' = click /\ product' = product
          /\ ClickAppendOnly]_vars

\* two redirect_product calls on product 1 have finished without a telemetry failure and two
\* Clicks reference it
C7_Witness ==
    /\ Len(product) >= 1
    /\ Cardinality(ProductClicksOn(1)) = 2
    /\ \A p \in Procs : pc[p] = "done" /\ req[p].op = "redirect_product" /\ faults[p] = {}

\* the fields of a ProductUpdateRequest
RequestFields == DOMAIN NoUpdate

\* the $set step of an update_product call
UpdateApplies(p) == pc[p] = "update_product_set" /\ Steps(p)

\* what the $set step of slot p may do to the products: on the product it names, a field
\* supplied in the request takes the supplied value, updated_at takes the time the handler
\* read (later than the product's creation), every other field keeps its value; the other
\* products keep theirs
PatchOnly(p) ==
    LET i == req[p].product_id
        body == req[p].body
    IN  /\ Len(product') = Len(product)
        /\ \A j \in 1..Len(product) : j # i => product'[j] = product[j]
        /\ DOMAIN product'[i] = DOMAIN product[i]
        /\ \A k \in DOMAIN product[i] :
              IF k \in RequestFields /\ body[k] # None
                 THEN product'[i][k] = Stored(k, body[k])
                 ELSE IF k = "updated_at"
                 THEN /\ product'[i][k] = loc[p].updates.updated_at[1]
                      /\ product'[i][k] > product[i].created_at
                 ELSE product'[i][k] = product[i][k]

\* C8: a successful update_product changes only the fields supplied in the request, plus
\* updated_at, which it stamps; every field absent from the request, and clicks, orders and
\* affiliate_id, keep their values and none is overwritten with null
C8_PatchSemantics ==
    [][\A p \in Procs : UpdateApplies(p) => result'[p].status = 200 /\ PatchOnly(p)]_vars

\* the partial payload {price: 999} has been applied to product 1: the price changed, the
\* title and the category did not, updated_at is newer than created_at
C8_Witness ==
    \E p \in Procs :
        /\ pc[p] = "done" /\ req[p].op = "update_product" /\ result[p].status = 200
        /\ req[p].product_id = 1
        /\ req[p].body = [NoUpdate EXCEPT !.price = Some(999)]
        /\ product[1].price = 999
        /\ product[1].title = "t1"
        /\ product[1].category = Some("electronics")
        /\ product[1].updated_at > product[1].created_at

\* the fields of a product document other than the two counters
NonCounterFields(doc) == DOMAIN doc \ {"clicks", "orders"}

\* the answer of update_product to an unknown id and to a user who is not the owner
UpdateRefused(p) ==
    LET prod == FindById(product, req'[p].product_id) IN
    /\ prod = None => pc'[p] = "done" /\ result'[p].status = 404 /\ product' = product
    /\ prod # None /\ prod[1].affiliate_id # req'[p].user_id
          => pc'[p] = "done" /\ result'[p].status = 403 /\ product' = product

\* a step that changes a non-counter field of product i is the $set step of an
\* update_product call on i made by the owning affiliate
OnlyOwnerChanges(i) ==
    (\E k \in NonCounterFields(product[i]) : product'[i][k] # product[i][k])
        => \E p \in Procs : /\ UpdateApplies(p)
                            /\ req[p].op = "update_product"
                            /\ req[p].product_id = i
                            /\ req[p].user_id = product[i].affiliate_id

\* C9: update_product answers 404 to an unknown product id and 403 to an acting user who is
\* not the owning affiliate, and in both cases leaves the products unchanged; a product's
\* non-counter fields change only in an update_product call made by its owning affiliate
C9_OwnerOnly ==
    [][/\ \A p \in Procs : Starts(p, "update_product") => UpdateRefused(p)
       /\ \A i \in 1..Len(product) : OnlyOwnerChanges(i)]_vars

\* an update of product 1 by another affiliate was refused with 403 and an update of an
\* unknown id with 404, and product 1 is as created
C9_Witness ==
    \E p, q \in Procs :
        /\ pc[p] = "done" /\ req[p].op = "update_product" /\ result[p].status = 403
        /\ req[p].product_id = 1 /\ req[p].user_id = 3
        /\ req[p].body = [NoUpdate EXCEPT !.price = Some(999)]
        /\ pc[q] = "done" /\ req[q].op = "update_product" /\ result[q].status = 404
        /\ Len(product) = 1 /\ product[1].price = 10 /\ product[1].affiliate_id = 1

\* the caller of a create_product request is a stored user with role "affiliate"
CallerIsAffiliate(user_id) == user_id \in 1..Len(user) /\ user[user_id].role = "affiliate"

\* the answer of create_product to a caller who is no stored affiliate
CreateRefused(p) ==
    ~CallerIsAffiliate(req'[p].user_id)
        => pc'[p] = "done" /\ result'[p].status = 403 /\ product' = product

\* a product is inserted only by the insert step of a create_product call of a stored
\* affiliate, with clicks = 0, orders = 0 and the caller as affiliate_id
InsertedByAffiliate ==
    Len(product') # Len(product)
        => /\ Len(product') = Len(product) + 1
           /\ product'[Len(product')].clicks = 0
           /\ product'[Len(product')].orders = 0
           /\ \E p \in Procs : /\ pc[p] = "create_product_insert" /\ Steps(p)
                               /\ CallerIsAffiliate(req[p].user_id)
                               /\ product'[Len(product')].affiliate_id = req[p].user_id
                               /\ result'[p] = [status |-> 200, product_id |-> Len(product')]

\* C10: create_product succeeds only for a caller whose stored user record exists with role
\* "affiliate"; any other caller gets 403 and nothing is inserted; every product inserted
\* has clicks = 0, orders = 0 and affiliate_id equal to the creating user's id
C10_CreateByAffiliate ==
    /\ [](\A p \in Procs :
             pc[p] = "done" /\ req[p].op = "create_product" /\ result[p].status = 200
                => CallerIsAffiliate(req[p].user_id))
    /\ [][/\ \A p \in Procs : Starts(p, "create_product") => CreateRefused(p)
          /\ InsertedByAffiliate]_vars

\* affiliate 3 has created a product that is stored with its id and zero counters, and the
\* buyer's create was refused
C10_Witness ==
    \E p, q \in Procs :
        /\ pc[p] = "done" /\ req[p].op = "create_product" /\ result[p].status = 200
        /\ req[p].user_id = 3
        /\ product[result[p].product_id].affiliate_id = 3
        /\ product[result[p].product_id].clicks = 0
        /\ pc[q] = "done" /\ req[q].op = "create_product" /\ result[q].status = 403
        /\ req[q].user_id = 2

\* no settings document exists, or its links map has no key platform.lower()
Unconfigured(settings, platform) ==
    Len(settings) = 0 \/ Lower(platform) \notin DOMAIN settings[1].links

\* C3: redirect_platform to an unconfigured platform (no AdminSettings document, or the
\* looked-up key absent from the links map) answers 404 and leaves the Click log unchanged
C3_UnconfiguredPlatform ==
    [][\A p \in Procs :
          Starts(p, "redirect_platform") /\ Unconfigured(adminsettings, req'[p].platform)
             => pc'[p] = "done" /\ result'[p].status = 404 /\ click' = click]_vars

\* a redirect to a platform absent from the stored links map was answered 404 and no Click
\* was written
C3_Witness ==
    \E p \in Procs :
        /\ pc[p] = "done" /\ req[p].op = "redirect_platform" /\ result[p].status = 404
        /\ Len(adminsettings) = 1
        /\ DOMAIN adminsettings[1].links # {}
        /\ Unconfigured(adminsettings, req[p].platform)
        /\ click = <<>>

\* C4 as claimed: two platform names that differ only in letter case get the same outcome
\* from the lookup of redirect_platform, and a platform stored with a URL under any casing
\* of its name is resolvable under every casing of it
C4_CaseInsensitiveLookup ==
    /\ \A n1, n2 \in PlatformNames :
          Lower(n1) = Lower(n2)
             => ResolvePlatform(adminsettings, n1) = ResolvePlatform(adminsettings, n2)
    /\ \A k \in DOMAIN GetLinks(adminsettings) :
          GetLinks(adminsettings)[k] # ""
             => \A n \in PlatformNames :
                   Lower(n) = Lower(k) => ~Falsy(ResolvePlatform(adminsettings, n))

\* C5 as claimed: the adminsettings collection holds at most one document
C5_AtMostOneSettings == Len(adminsettings) <= 1

\* a set_links call that was accepted has finished
SetDone(s) == pc[s] = "done" /\ req[s].op = "set_links" /\ result[s].status = 200

\* no accepted set_links call was served after slot s and before slot g
NoSetBetween(s, g) ==
    \A k \in Procs : s < k /\ k < g => ~(req[k].op = "set_links" /\ ValidAdmin(req[k].creds))

\* the answer of set_links to a wrong credential
SetRefused(p) ==
    ~ValidAdmin(req'[p].creds)
        => pc'[p] = "done" /\ result'[p].status = 401 /\ adminsettings' = adminsettings

\* C6: with requests served one at a time, a get_links served after an accepted
\* set_links(M), with no accepted set_links in between, returns exactly M, whatever the
\* collection held before; a set_links with a wrong credential answers 401 and leaves the
\* stored settings unchanged
C6_SetGetRoundTrip ==
    /\ [](\A s, g \in Procs :
             /\ s < g /\ SetDone(s) /\ NoSetBetween(s, g)
             /\ pc[g] = "done" /\ req[g].op = "get_links"
             => result[g].links = req[s].links)
    /\ [][\A p \in Procs : Starts(p, "set_links") => SetRefused(p)]_vars

\* a stored map with the key "az" was replaced by a map with the key "fk" alone, and the
\* get_links that followed returned that map
C6_Witness ==
    /\ SetDone(1)
    /\ req[1].links = [k \in { <<"f", "k">> } |-> "https://fkrt.it/2"]
    /\ pc[2] = "done" /\ req[2].op = "get_links"
    /\ result[2].links = req[1].links
    /\ Len(adminsettings) = 1
    /\ adminsettings[1].updated_at > adminsettings[1].created_at

====
